---- MODULE Spec2Model ----
(***************************************************************************)
(* A model of lib/platform_file_features.py: get_file_features (the        *)
(* per-file feature extractor) and get_directory_features (the directory   *)
(* aggregator), as one sequential state machine.                           *)
(*                                                                         *)
(* Representation of values:                                               *)
(*  - a file name is the sequence of its "."-separated fields, so that     *)
(*    "SRR111.illumina.fastq" is <<"SRR111", "illumina", "fastq">>;        *)
(*  - a record of the reader is [readlen, qual]: the length of the read    *)
(*    string (only len(read) is used by the code) and the quality string   *)
(*    as the sequence of the ordinals of its characters;                   *)
(*  - a float is an exact fraction <<numerator, denominator>> in lowest    *)
(*    terms; 100 * 10^(-score/10) is kept in fixed point (see Scale);      *)
(*  - the output sink is the sequence of the tokens written to it: cells,  *)
(*    TAB and NL.                                                          *)
(*  - a call that can raise returns [err, val]; err = "none" is a normal   *)
(*    return.                                                              *)
(***************************************************************************)
EXTENDS Integers, Sequences, FiniteSets, TLC

\* ------------------------------------------------------------ bounds
\* Largest window bound tried.
MaxPos == 2
\* Longest file (in records) of the single-file specification.
MaxRecords == 3
\* Longest directory listing of the directory specification.
MaxFiles == 3

\* ------------------------------------------------------------ values
R(err, val) == [err |-> err, val |-> val]

Ok(val) == R("none", val)

RECURSIVE GCD(_, _)
GCD(a, b) == IF b = 0 THEN a ELSE GCD(b, a % b)

Abs(n) == IF n < 0 THEN -n ELSE n

\* The fraction n/d (d > 0) in lowest terms.
Frac(n, d) == LET g == GCD(Abs(n), d) IN <<n \div g, d \div g>>

FracAdd(p, q) == Frac(p[1] * q[2] + q[1] * p[2], p[2] * q[2])

FracDivInt(p, n) == Frac(p[1], p[2] * n)

RECURSIVE Sum(_)
Sum(s) == IF Len(s) = 0 THEN 0 ELSE Head(s) + Sum(Tail(s))

RECURSIVE FracSum(_)
FracSum(s) == IF Len(s) = 0 THEN <<0, 1>> ELSE FracAdd(Head(s), FracSum(Tail(s)))

RECURSIVE Min(_)
Min(s) == IF Len(s) = 1 THEN s[1]
          ELSE LET m == Min(Tail(s)) IN IF s[1] < m THEN s[1] ELSE m

RECURSIVE Max(_)
Max(s) == IF Len(s) = 1 THEN s[1]
          ELSE LET m == Max(Tail(s)) IN IF s[1] > m THEN s[1] ELSE m

\* sorted(s), by insertion.
RECURSIVE Insert(_, _)
Insert(v, s) == IF Len(s) = 0 THEN <<v>>
                ELSE IF v <= Head(s) THEN <<v>> \o s
                ELSE <<Head(s)>> \o Insert(v, Tail(s))

RECURSIVE Sorted(_)
Sorted(s) == IF Len(s) = 0 THEN <<>> ELSE Insert(Head(s), Sorted(Tail(s)))

RECURSIVE Pow10(_)
Pow10(k) == IF k = 0 THEN 1 ELSE 10 * Pow10(k - 1)

\* ------------------------------------------------- platform_features
\* The two standard Phred offsets.
Sanger == 33

Illumina == 64

\* The largest Phred score a standard encoding writes.
MaxPhred == 41

ValidUnder(qual, off) ==
    \A i \in 1..Len(qual) : qual[i] >= off /\ qual[i] <= off + MaxPhred

\* get_offset(qual): the least standard offset under which every character
\* of qual is a valid Phred score; raises when there is none.
get_offset(qual) ==
    IF ValidUnder(qual, Sanger) THEN Ok(Sanger)
    ELSE IF ValidUnder(qual, Illumina) THEN Ok(Illumina)
    ELSE R("ValueError", 0)

\* Fixed point: a probability percentage p is the integer p * Scale.
Scale == 100

\* 100 * 10^(-r/10) * Scale for r = 0..9, rounded.
Decile == <<10000, 7943, 6310, 5012, 3981, 3162, 2512, 1995, 1585, 1259>>

\* transform_phred_to_prob(x, offset) * 100: the error probability of the
\* Phred score ord(x) - offset as a percentage; raises on a negative score.
transform_phred_to_prob(x, offset) ==
    LET score == x - offset
    IN  IF score < 0 THEN R("ValueError", 0)
        ELSE Ok(Decile[(score % 10) + 1] \div Pow10(score \div 10))

\* --------------------------------------------------------- statistics
\* sum(data) / len(data) of integers; ZeroDivisionError on no data.
Mean(data) ==
    IF Len(data) = 0 THEN R("ZeroDivisionError", <<>>)
    ELSE Ok(Frac(Sum(data), Len(data)))

\* sum(data) / len(data) of floats.
FracMean(data) ==
    IF Len(data) = 0 THEN R("ZeroDivisionError", <<>>)
    ELSE Ok(FracDivInt(FracSum(data), Len(data)))

\* statistics.median: the middle value, or the mean of the two middle ones.
median(data) ==
    LET s == Sorted(data)
        n == Len(data)
    IN  IF n = 0 THEN R("StatisticsError", <<>>)
        ELSE IF n % 2 = 1 THEN Ok(Frac(s[(n + 1) \div 2], 1))
        ELSE Ok(Frac(s[n \div 2] + s[n \div 2 + 1], 2))

\* Sum of the k-th powers of the deviations n*x - sum(data) (k = 2, 3).
RECURSIVE DevPow(_, _, _, _)
DevPow(data, i, k, acc) ==
    IF i > Len(data) THEN acc
    ELSE LET d == Len(data) * data[i] - Sum(data)
         IN  DevPow(data, i + 1, k, acc + (IF k = 2 THEN d * d ELSE d * d * d))

\* A population standard deviation (divisor n), defined from one value on.
pstdev(data) ==
    IF Len(data) < 1 THEN R("StatisticsError", <<>>)
    ELSE Ok(Frac(DevPow(data, 1, 2, 0), Len(data) * Len(data) * Len(data)))

\* statistics.stdev: the sample standard deviation (divisor n - 1), given
\* as its square, the sample variance; raises StatisticsError below two
\* values.
stdev(data) ==
    IF Len(data) < 2 THEN R("StatisticsError", <<>>)
    ELSE Ok(Frac(DevPow(data, 1, 2, 0),
                 Len(data) * Len(data) * (Len(data) - 1)))

\* scipy.stats.skew: sqrt(n) * M3 / M2^(3/2) over the deviations above,
\* given as <<M3, M2, n>>; it is nan (no error) when M2 = 0.
skew(data) ==
    Ok(<<DevPow(data, 1, 3, 0), DevPow(data, 1, 2, 0), Len(data)>>)

\* ------------------------------------------------------- HEADER, cells
HEADER == <<"avg_length", "min_length", "max_length", "median_length",
            "stddev_length", "skew_length", "avg_avg_phred",
            "avg_min_phred", "avg_max_phred">>

\* A token of the output sink: a string written as it is ...
Text(s) == [text |-> s, num |-> <<>>]

\* ... or str(v) of a number v, kept as the number it prints.
Str(v) == [text |-> "", num |-> v]

TAB == Text("\t")

NL == Text("\n")

\* "\t".join(cells)
RECURSIVE Join(_)
Join(cells) == IF Len(cells) = 0 THEN <<>>
               ELSE IF Len(cells) = 1 THEN <<cells[1]>>
               ELSE <<cells[1], TAB>> \o Join(Tail(cells))

RECURSIVE MapText(_)
MapText(ss) == IF Len(ss) = 0 THEN <<>>
               ELSE <<Text(Head(ss))>> \o MapText(Tail(ss))

RECURSIVE MapStr(_)
MapStr(vs) == IF Len(vs) = 0 THEN <<>>
              ELSE <<Str(Head(vs))>> \o MapStr(Tail(vs))

\* ------------------------------------------------- get_file_features
\* The bounds as given, never swapped.
NoSwap(positions) == <<positions[1], positions[2]>>

\* Lines 45-48: the window bounds, swapped when both are non-zero and out
\* of order.

Normalize(positions) ==
    LET x == positions[1]
        y == positions[2]
    IN  IF x # 0 /\ y # 0 /\ y < x THEN <<y, x>> ELSE <<x, y>>

\* An end test that is one record late.
PastEndLate(position, y) == position > y + 1

\* Line 56: the test that ends the iteration.

PastEnd(position, y) == position > y

\* Line 58: the test that skips a record.
Skip(qual, position, x) == Len(qual) = 0 \/ position < x

\* An offset that is determined anew for every record.
AlwaysDetect(offset) == TRUE

\* Line 62: whether the offset is still to be determined.

NeedOffset(offset) == offset = 0

\* Lines 33-41: the three quality features of one read.
RECURSIVE seq_qual_prob(_, _)
seq_qual_prob(qual_ascii, offset) ==
    IF Len(qual_ascii) = 0 THEN Ok(<<>>)
    ELSE LET p == transform_phred_to_prob(Head(qual_ascii), offset)
             rest == seq_qual_prob(Tail(qual_ascii), offset)
         IN  IF p.err # "none" THEN R(p.err, <<>>)
             ELSE IF rest.err # "none" THEN rest
             ELSE Ok(<<p.val>> \o rest.val)

get_qual_features(qual_ascii, offset) ==
    LET probs == seq_qual_prob(qual_ascii, offset)
    IN  IF probs.err # "none" THEN R(probs.err, <<>>)
        ELSE Ok([avg_avg_phred |-> Frac(Sum(probs.val), Len(probs.val) * Scale),
                 avg_min_phred |-> Frac(Min(probs.val), Scale),
                 avg_max_phred |-> Frac(Max(probs.val), Scale)])

\* Lines 44-51: the locals of a call. ctl is where control is after a loop
\* step ("continue", "break", "raise", or "exhausted" once the reader has
\* no more records); offset_calls, decoded and contrib
\* record, for the properties, the positions at which get_offset was
\* called, the offset each contributing record was decoded with, and the
\* positions of the records counted.
InitFrame(positions) ==
    [position |-> 0,
     x |-> Normalize(positions)[1],
     y |-> Normalize(positions)[2],
     qual_array |-> [avg_avg_phred |-> <<>>, avg_min_phred |-> <<>>,
                     avg_max_phred |-> <<>>],
     count |-> 0,
     offset |-> 0,
     lengths |-> <<>>,
     ctl |-> "continue",
     err |-> "none",
     qual_avgs |-> <<>>,
     offset_calls |-> <<>>,
     decoded |-> <<>>,
     contrib |-> <<>>]

\* Lines 53-68: one pass of the loop body over the record just pulled.
LoopBody(fr, record) ==
    LET position == fr.position + 1
        qual == record.qual
    IN  IF PastEnd(position, fr.y)
        THEN [fr EXCEPT !.position = position, !.ctl = "break"]
        ELSE IF Skip(qual, position, fr.x)
        THEN [fr EXCEPT !.position = position, !.ctl = "continue"]
        ELSE
          LET counted == [fr EXCEPT !.position = position,
                                    !.count = fr.count + 1,
                                    !.lengths = Append(fr.lengths, record.readlen),
                                    !.contrib = Append(fr.contrib, position)]
              need == NeedOffset(fr.offset)
              off == IF need THEN get_offset(qual) ELSE Ok(fr.offset)
              called == IF need
                        THEN [counted EXCEPT
                                !.offset_calls = Append(fr.offset_calls, position)]
                        ELSE counted
          IN  IF off.err # "none"
              THEN [called EXCEPT !.ctl = "raise", !.err = off.err]
              ELSE
                LET qf == get_qual_features(qual, off.val)
                    set == [called EXCEPT
                              !.offset = off.val,
                              !.decoded = Append(fr.decoded, off.val)]
                IN  IF qf.err # "none"
                    THEN [set EXCEPT !.ctl = "raise", !.err = qf.err]
                    ELSE [set EXCEPT
                            !.ctl = "continue",
                            !.qual_array =
                              [key \in DOMAIN fr.qual_array |->
                                 Append(fr.qual_array[key], qf.val[key])]]

\* Line 69: the mean of each quality feature over the contributing reads.
qual_avgs(fr) ==
    LET a == FracMean(fr.qual_array["avg_avg_phred"])
        b == FracMean(fr.qual_array["avg_min_phred"])
        c == FracMean(fr.qual_array["avg_max_phred"])
    IN  IF a.err # "none" THEN R(a.err, <<>>)
        ELSE IF b.err # "none" THEN R(b.err, <<>>)
        ELSE IF c.err # "none" THEN R(c.err, <<>>)
        ELSE Ok([avg_avg_phred |-> a.val, avg_min_phred |-> b.val,
                 avg_max_phred |-> c.val])

\* Lines 74-84: the returned list, built left to right; the first element
\* that raises ends it.
Features(fr, avgs) ==
    LET lengths == fr.lengths
        m == Mean(lengths)
        md == median(lengths)
        sd == stdev(lengths)
        sk == skew(lengths)
    IN  IF m.err # "none" THEN R(m.err, <<>>)
        ELSE IF md.err # "none" THEN R(md.err, <<>>)
        ELSE IF sd.err # "none" THEN R(sd.err, <<>>)
        ELSE IF sk.err # "none" THEN R(sk.err, <<>>)
        ELSE Ok(<<m.val, <<Min(lengths), 1>>, <<Max(lengths), 1>>, md.val,
                  sd.val, sk.val, avgs["avg_avg_phred"],
                  avgs["avg_min_phred"], avgs["avg_max_phred"]>>)

\* Lines 52-68 as a whole: the loop over the records of a file.
RECURSIVE RunLoop(_, _, _)
RunLoop(fr, records, i) ==
    IF i > Len(records) THEN [fr EXCEPT !.ctl = "exhausted"]
    ELSE LET nf == LoopBody(fr, records[i])
         IN  IF nf.ctl = "continue" THEN RunLoop(nf, records, i + 1) ELSE nf

\* Lines 32-84 as a function of the file and the window: what the call
\* returns (val = <<features, count>>) or raises, and the positions of the
\* records that contributed.
GetFileFeatures(records, positions) ==
    LET fr == RunLoop(InitFrame(positions), records, 1)
        avgs == qual_avgs(fr)
        feats == Features(fr, avgs.val)
    IN  IF fr.ctl = "raise" THEN [err |-> fr.err, val |-> <<>>, contrib |-> fr.contrib]
        ELSE IF avgs.err # "none"
        THEN [err |-> avgs.err, val |-> <<>>, contrib |-> fr.contrib]
        ELSE IF feats.err # "none"
        THEN [err |-> feats.err, val |-> <<>>, contrib |-> fr.contrib]
        ELSE [err |-> "none", val |-> <<feats.val, fr.count>>, contrib |-> fr.contrib]

\* -------------------------------------------- get_directory_features
\* A header whose accession column does not depend on the header option.
HeaderForSrr(header, srr) ==
    (IF header THEN Join(MapText(HEADER)) \o <<TAB, Text("label")>> ELSE <<>>)
    \o (IF srr THEN <<TAB, Text("accession_number")>> ELSE <<>>)
    \o (IF header THEN <<NL>> ELSE <<>>)

\* Lines 95-100: what the header option writes.
HeaderTokens(header, srr) ==
    (IF header THEN Join(MapText(HEADER)) \o <<TAB, Text("label")>> ELSE <<>>)
    \o (IF srr /\ header THEN <<TAB, Text("accession_number")>> ELSE <<>>)
    \o (IF header THEN <<NL>> ELSE <<>>)

\* A test for ".fastq" anywhere in the name.
HasFastqField(filename) == \E i \in 2..Len(filename) : filename[i] = "fastq"

\* Line 103: filename.endswith(".fastq"), on the fields of the name.
EndsWithFastq(filename) ==
    Len(filename) >= 2 /\ filename[Len(filename)] = "fastq"

\* Lines 107-110: the line printed for a file.
RowTokens(features, labels) ==
    Join(MapStr(features) \o <<Text(labels[2]), Text(labels[1])>>) \o <<NL>>

\* An error that is caught per file: the loop goes on to the next name.
AfterErrorNextFile == "listing"

\* Lines 104-106: the call stands in no try block, so an error raised in
\* get_file_features ends get_directory_features too.

AfterError == "raised"

\* ------------------------------------------------------------- inputs
Blank == [readlen |-> 0, qual |-> <<>>]

S1 == [readlen |-> 1, qual |-> <<40>>]

I2 == [readlen |-> 2, qual |-> <<80, 90>>]

S3 == [readlen |-> 3, qual |-> <<40, 50, 73>>]

Mixed == [readlen |-> 2, qual |-> <<40, 80>>]

Records == {Blank, S1, I2, S3, Mixed}

SeqsUpTo(S, n) == UNION {[1..k -> S] : k \in 0..n}

Windows == (0..MaxPos) \X (0..MaxPos)

FastqNames == {<<"SRR111", "illumina", "fastq">>, <<"SRR222", "pacbio", "fastq">>}

OtherNames == {<<"SRR333", "fastq", "gz">>}

SampleFiles == {<<>>, <<S1>>, <<S1, I2>>, <<Mixed, S1>>, <<S1, Blank, S3>>}

Entries ==
    {[name |-> n, records |-> r] : n \in FastqNames, r \in SampleFiles}
    \cup {[name |-> n, records |-> <<S1, I2>>] : n \in OtherNames}

\* Directory listings: the names of a directory are distinct.
Listings ==
    {d \in SeqsUpTo(Entries, MaxFiles) :
        \A i, j \in 1..Len(d) : i # j => d[i].name # d[j].name}

\* -------------------------------------------------------------- state
VARIABLES
    dir,        \* os.listdir(directory) with the records of each file
    positions,  \* the window argument
    header,     \* the header option
    srr,        \* the accession-column option
    pc,         \* where control is
    idx,        \* index in dir of the file name the for loop is at
    output,     \* the tokens written to the output sink
    count,      \* get_directory_features' count
    ret,        \* <<count>> once get_directory_features has returned
    error,      \* the exception that ended the run, or "none"
    readers,    \* the SeqReader objects created so far
    frame,      \* the locals of the current call of get_file_features
    features    \* <<features, count>> as returned by get_file_features

vars == <<dir, positions, header, srr, pc, idx, output, count, ret, error,
          readers, frame, features>>

inputs == <<dir, positions, header, srr>>

Start ==
    /\ pc = "start"
    /\ idx = 0
    /\ output = <<>>
    /\ count = 0
    /\ ret = <<>>
    /\ error = "none"
    /\ readers = <<>>
    /\ frame = InitFrame(<<0, 0>>)
    /\ features = <<>>

\* A run of get_directory_features over a directory of sample files.
Init ==
    /\ dir \in Listings
    /\ positions \in Windows
    /\ header \in BOOLEAN
    /\ srr \in BOOLEAN
    /\ Start

\* A run over a directory that holds one fastq file, of any records.
InitFile ==
    /\ dir \in {<<[name |-> <<"SRR111", "illumina", "fastq">>, records |-> r]>> :
                   r \in SeqsUpTo(Records, MaxRecords)}
    /\ positions \in Windows
    /\ header = FALSE
    /\ srr = FALSE
    /\ Start

\* An exception leaves get_file_features (and what is above it).
Raise(err) ==
    /\ pc' = AfterError
    /\ error' = err

\* Lines 95-101.
WriteHeader ==
    /\ pc = "start"
    /\ output' = output \o HeaderTokens(header, srr)
    /\ count' = 0
    /\ pc' = "listing"
    /\ UNCHANGED <<inputs, idx, ret, error, readers, frame, features>>

\* Lines 102-106 and 43-51: the next file name; a fastq file is opened and
\* the locals of get_file_features are set up.
NextFile ==
    /\ pc = "listing"
    /\ idx < Len(dir)
    /\ idx' = idx + 1
    /\ IF EndsWithFastq(dir[idx + 1].name)
       THEN /\ readers' = Append(readers, [file |-> idx + 1, cursor |-> 0,
                                           closed |-> FALSE])
            /\ frame' = InitFrame(positions)
            /\ pc' = "iterate"
       ELSE /\ pc' = "listing"
            /\ UNCHANGED <<readers, frame>>
    /\ UNCHANGED <<inputs, output, count, ret, error, features>>

\* Lines 52-68: the reader is asked for a record; the loop body runs on it.
NextRecord ==
    /\ pc = "iterate"
    /\ LET rd == readers[Len(readers)]
           records == dir[idx].records
       IN  IF rd.cursor = Len(records)
           THEN /\ frame' = [frame EXCEPT !.ctl = "exhausted"]
                /\ pc' = "aggregate"
                /\ UNCHANGED <<readers, error>>
           ELSE /\ readers' = [readers EXCEPT ![Len(readers)].cursor = rd.cursor + 1]
                /\ frame' = LoopBody(frame, records[rd.cursor + 1])
                /\ IF frame'.ctl = "raise" THEN Raise(frame'.err)
                   ELSE /\ pc' = IF frame'.ctl = "break" THEN "aggregate" ELSE "iterate"
                        /\ UNCHANGED error
    /\ UNCHANGED <<inputs, idx, output, count, ret, features>>

\* Line 69.
Aggregate ==
    /\ pc = "aggregate"
    /\ LET avgs == qual_avgs(frame)
       IN  IF avgs.err # "none"
           THEN /\ Raise(avgs.err)
                /\ UNCHANGED frame
           ELSE /\ frame' = [frame EXCEPT !.qual_avgs = avgs.val]
                /\ pc' = "close"
                /\ UNCHANGED error
    /\ UNCHANGED <<inputs, idx, output, count, ret, readers, features>>

\* Line 73.
CloseReader ==
    /\ pc = "close"
    /\ readers' = [readers EXCEPT ![Len(readers)].closed = TRUE]
    /\ pc' = "return"
    /\ UNCHANGED <<inputs, idx, output, count, ret, error, frame, features>>

\* Lines 74-84.
ReturnFeatures ==
    /\ pc = "return"
    /\ LET feats == Features(frame, frame.qual_avgs)
       IN  IF feats.err # "none"
           THEN /\ Raise(feats.err)
                /\ UNCHANGED features
           ELSE /\ features' = <<feats.val, frame.count>>
                /\ pc' = "row"
                /\ UNCHANGED error
    /\ UNCHANGED <<inputs, idx, output, count, ret, readers, frame>>

\* Lines 104-111: the row of the file is printed and the file counted.
WriteRow ==
    /\ pc = "row"
    /\ output' = output \o RowTokens(features[1], dir[idx].name)
    /\ count' = count + 1
    /\ pc' = "listing"
    /\ UNCHANGED <<inputs, idx, ret, error, readers, frame, features>>

\* Line 112.
ReturnCount ==
    /\ pc = "listing"
    /\ idx = Len(dir)
    /\ ret' = <<count>>
    /\ pc' = "returned"
    /\ UNCHANGED <<inputs, idx, output, count, error, readers, frame, features>>

Next ==
    \/ WriteHeader
    \/ NextFile
    \/ NextRecord
    \/ Aggregate
    \/ CloseReader
    \/ ReturnFeatures
    \/ WriteRow
    \/ ReturnCount

Spec == Init /\ [][Next]_vars

SpecFile == InitFile /\ [][Next]_vars

\* ----------------------------------------------- reading the output
\* toks.split(sep): the pieces of toks between the occurrences of sep.
RECURSIVE Split(_, _, _, _)
Split(toks, sep, cur, acc) ==
    IF Len(toks) = 0 THEN Append(acc, cur)
    ELSE IF Head(toks) = sep THEN Split(Tail(toks), sep, <<>>, Append(acc, cur))
    ELSE Split(Tail(toks), sep, Append(cur, Head(toks)), acc)

\* The lines of the sink, each as its tab-separated columns; what follows
\* the last NL, if anything, is a line too.
Lines(out) ==
    LET pieces == Split(out, NL, <<>>, <<>>)
        whole == IF pieces[Len(pieces)] = <<>>
                 THEN SubSeq(pieces, 1, Len(pieces) - 1) ELSE pieces
    IN  [i \in 1..Len(whole) |-> Split(whole[i], TAB, <<>>, <<>>)]

\* The columns of a line written from the given cells.
Columns(cells) == [i \in 1..Len(cells) |-> <<cells[i]>>]

HeaderWords == {HEADER[i] : i \in 1..Len(HEADER)} \cup {"label", "accession_number"}

\* A line that holds no header text: every token of it is a number or a
\* field of a file name.
IsDataLine(line) ==
    \A c \in 1..Len(line) : \A t \in 1..Len(line[c]) :
        line[c][t].text \notin HeaderWords

\* The lines after the header line, when the header option is set.
DataLines(out) ==
    IF header /\ Len(Lines(out)) >= 1
    THEN SubSeq(Lines(out), 2, Len(Lines(out))) ELSE Lines(out)

\* A name of the form <stem>.fastq.
IsFastqName(name) ==
    \E k \in 1..Len(name) - 1 : name = SubSeq(name, 1, k) \o <<"fastq">>

\* The entries with such a name among the first n of the listing, in
\* listing order.
RECURSIVE Eligible(_)
Eligible(n) ==
    IF n = 0 THEN <<>>
    ELSE IF IsFastqName(dir[n].name) THEN Append(Eligible(n - 1), dir[n])
    ELSE Eligible(n - 1)

LoopOver == frame.ctl \in {"break", "exhausted"}

CurrentReader == readers[Len(readers)]

\* ------------------------------------------------------------- claims
\* The positions 1..n of the records that the window <<x, y>> read as the
\* description reads it (an end bound of 0 is no upper limit) selects.
Selected(records, x, y, n) ==
    {i \in 1..n : /\ Len(records[i].qual) # 0
                  /\ i >= x
                  /\ (y = 0 \/ i <= y)}

\* The positions 1..n of the records that the loop counts: those that pass
\* the end test of line 56 and are not skipped at line 58.
Counted(records, x, y, n) ==
    {i \in 1..n : /\ Len(records[i].qual) # 0
                  /\ i >= x
                  /\ i <= y}

Range(s) == {s[i] : i \in 1..Len(s)}

\* C1: with an end bound of 0 the window has no upper limit: the loop runs
\* to the end of the file and the count is the number of records with a
\* non-empty quality string at or after the start bound.
C1_ZeroEndIsUnbounded ==
    (positions[2] = 0 /\ pc \in {"aggregate", "close", "return", "row"})
    => /\ CurrentReader.cursor = Len(dir[idx].records)
       /\ frame.count =
            Cardinality(Selected(dir[idx].records, frame.x, 0,
                                 Len(dir[idx].records)))

\* C2: with the accession-column option off every data row ends with the
\* platform label and has as many columns as the header row, nine features
\* and the label.
C2_AccessionOnlyWithSrr ==
    ~srr =>
      \A i \in 1..Len(DataLines(output)) :
        LET line == DataLines(output)[i]
        IN  /\ Len(line) = Len(HEADER) + 1
            /\ line[Len(line)] = <<Text(Eligible(idx)[i].name[2])>>

\* C3: whenever get_file_features has been left, by a return or by an
\* error, no reader is open.
C3_ReaderClosedOnEveryExit ==
    pc \in {"row", "listing", "returned", "raised"}
    => \A i \in 1..Len(readers) : readers[i].closed

\* C4: a window <<a, b>> with both bounds non-zero and b < a selects the
\* records, and gives the result or the error, that <<b, a>> gives.
C4_WindowNormalization ==
    LET a == positions[1]
        b == positions[2]
        other == GetFileFeatures(dir[idx].records, <<b, a>>)
    IN  (a # 0 /\ b # 0 /\ b < a /\ pc \in {"row", "raised"})
        => /\ frame.contrib = other.contrib
           /\ pc = "row" => (other.err = "none" /\ features = other.val)
           /\ pc = "raised" => (other.err = error /\ features = <<>>)

C4_Witness ==
    /\ positions = <<2, 1>>
    /\ pc = "row"
    /\ frame.contrib = <<1, 2>>

\* C5: a feature vector is returned only when two reads or more
\* contributed; with none the call ends in a ZeroDivisionError and with
\* one in a StatisticsError, and nothing is returned.
C5_TwoReadsOrError ==
    /\ pc \in {"row", "listing", "returned"} /\ idx > 0
       => (frame.count >= 2 /\ features[2] = frame.count)
    /\ (pc = "raised" /\ LoopOver /\ frame.count = 0)
       => (error = "ZeroDivisionError" /\ features = <<>>)
    /\ (pc = "raised" /\ LoopOver /\ frame.count = 1)
       => (error = "StatisticsError" /\ features = <<>>)
    /\ (pc = "aggregate" /\ frame.count = 0)
       => qual_avgs(frame).err = "ZeroDivisionError"
    /\ pc \in {"close", "return"} => frame.count > 0
    /\ (pc = "return" /\ frame.count = 1)
       => Features(frame, frame.qual_avgs).err = "StatisticsError"

C5_Witness ==
    /\ pc = "raised"
    /\ LoopOver
    /\ frame.count = 1
    /\ error = "StatisticsError"
    /\ CurrentReader.cursor = 3

\* C6: an error of one file's extraction ends the run there: nothing more
\* is written, no count is returned, nothing follows, and the sink holds
\* the header and the rows of the files before it.
C6_ErrorAbortsRun ==
    [][/\ pc # "raised"
       /\ error' # "none" =>
            /\ pc' = "raised"
            /\ output' = output
            /\ ret' = <<>>
            /\ Len(DataLines(output')) = Len(Eligible(idx - 1))
            /\ Len(DataLines(output')) = count']_vars

C6_Witness ==
    /\ pc = "raised"
    /\ header
    /\ idx = 2
    /\ Len(dir) = 3
    /\ count = 1
    /\ Len(Lines(output)) = 2

\* C7: when the run returns, the sink holds one data row for each entry
\* whose name ends in ".fastq", in listing order, none for the others, and
\* the count returned is the number of data rows.
C7_OneRowPerFastqFile ==
    pc = "returned" =>
      LET rows == DataLines(output)
          files == Eligible(Len(dir))
      IN  /\ Len(rows) = Len(files)
          /\ ret = <<Len(rows)>>
          /\ \A i \in 1..Len(rows) :
               LET got == GetFileFeatures(files[i].records, positions)
               IN  /\ got.err = "none"
                   /\ SubSeq(rows[i], 1, Len(HEADER)) = Columns(MapStr(got.val[1]))
                   /\ rows[i][Len(HEADER) + 1] = <<Text(files[i].name[2])>>
                   /\ rows[i][Len(HEADER) + 2] = <<Text(files[i].name[1])>>

C7_Witness ==
    /\ pc = "returned"
    /\ ret = <<2>>
    /\ Len(dir) = 3
    /\ ~IsFastqName(dir[2].name)

\* C8: with the header option on, one header line is written, before
\* every data row, ending with "label" and then "accession_number" only if
\* srr is set; with it off, nothing of a header is written.
C8_HeaderFirst ==
    LET lines == Lines(output)
        names == MapText(HEADER) \o <<Text("label")>>
    IN  /\ pc = "start" => output = <<>>
        /\ (pc # "start" /\ header) =>
              /\ Len(lines) >= 1
              /\ lines[1] = Columns(IF srr THEN Append(names, Text("accession_number"))
                                    ELSE names)
              /\ \A i \in 2..Len(lines) : IsDataLine(lines[i])
        /\ ~header => \A i \in 1..Len(lines) : IsDataLine(lines[i])

C8_Witness ==
    /\ header
    /\ srr
    /\ pc = "returned"
    /\ Len(Lines(output)) = 3

\* C9: get_offset is called once for a file, on its first contributing
\* record, and every contributing record is decoded with the offset it
\* gave.
C9_StickyOffset ==
    /\ frame.contrib = <<>> => (frame.offset_calls = <<>> /\ frame.offset = 0)
    /\ frame.contrib # <<>> => frame.offset_calls = <<frame.contrib[1]>>
    /\ \A i \in 1..Len(frame.decoded) : frame.decoded[i] = frame.offset
    /\ frame.ctl # "raise" => Len(frame.decoded) = Len(frame.contrib)

C9_Witness ==
    /\ Len(frame.decoded) = 2
    /\ frame.offset = Sanger
    /\ get_offset(dir[idx].records[frame.contrib[2]].qual).val = Illumina

====
